---- MODULE Spec2Model ----
(***************************************************************************)
(* A model of src/app.py: a Streamlit page whose button handler chains an  *)
(* image-endpoint call, a script step (text endpoint or local template), a *)
(* gTTS narration and a moviepy render, over two fixed temporary files.    *)
(*                                                                         *)
(* Texts are TLA+ strings (TLC evaluates Len, Head, Tail, SubSeq and \o on *)
(* them).  TLA+ strings are ASCII: the em dash of line 45 is written "~".  *)
(* The texts of the model hold no tab, hyphen, quote or backslash, so the  *)
(* tab expansion and hyphen breaking of textwrap and the escaping of       *)
(* Python's repr are not exercised.                                        *)
(***************************************************************************)
EXTENDS Integers, Sequences, FiniteSets, TLC

\* ---------------------------------------------------------------- bounds
\* Longest narration, in seconds, the speech service returns in the model.
MaxAudioLen == 22
\* Longest topic, in characters, given to the template in FnSpec.
MaxTopicLen == 3
\* Last value of int(time.time()) in the model (the first is 0).
MaxTime == 1

\* ------------------------------------------------------ program constants
HTTP_OK == 200
MIN_DURATION == 6
MAX_DURATION == 20
WRAP_WIDTH == 40
TARGET_H == 1280
FPS == 24
DEFAULT_DURATION == 10
DEFAULT_PROMPT == "cinematic portrait of a confident entrepreneur, golden rim light, filmic"
DEFAULT_TOPIC == "mindset and hustle"
VOICE_LANGS == {"en", "en-us", "en-uk", "es", "fr", "de"}
\* the language codes gTTS is given
GTTS_LANGS == {"en", "es", "fr", "de"}

\* ------------------------------------------------------------ text helpers
\* The character of s at position i (from 1).
CharAt(s, i) == SubSeq(s, i, i)

RECURSIVE JoinRange(_, _, _, _)
\* sep.join(parts[lo..hi]), by halves
JoinRange(sep, parts, lo, hi) ==
    IF lo > hi THEN ""
    ELSE IF lo = hi THEN parts[lo]
    ELSE LET mid == (lo + hi) \div 2
         IN JoinRange(sep, parts, lo, mid) \o sep \o JoinRange(sep, parts, mid + 1, hi)

\* sep.join(parts)
Join(sep, parts) == JoinRange(sep, parts, 1, Len(parts))

\* T occurs in s as a contiguous substring.
Contains(s, T) ==
    \E i \in 1..(Len(s) + 1) : i + Len(T) - 1 <= Len(s) /\ SubSeq(s, i, i + Len(T) - 1) = T

IsSpace(c) == c \in {" ", "\n"}

RECURSIVE IsBlank(_)
\* s.strip() == ''
IsBlank(s) == s = "" \/ (IsSpace(Head(s)) /\ IsBlank(Tail(s)))

\* ------------------------------------------------------ Python values
\* A JSON / Python value: t is its type; s, n, elems and keys hold the value
\* of a str, an int, a list (elems) or a dict (keys with elems as values).
PyNone == [t |-> "None", s |-> "", n |-> 0, elems |-> <<>>, keys |-> <<>>]
PyStrV(text) == [t |-> "str", s |-> text, n |-> 0, elems |-> <<>>, keys |-> <<>>]
PyInt(k) == [t |-> "int", s |-> "", n |-> k, elems |-> <<>>, keys |-> <<>>]
PyList(xs) == [t |-> "list", s |-> "", n |-> 0, elems |-> xs, keys |-> <<>>]
PyDict(ks, vs) == [t |-> "dict", s |-> "", n |-> 0, elems |-> vs, keys |-> ks]

Digit(d) == SubSeq("0123456789", d + 1, d + 1)

RECURSIVE Digits(_)
Digits(k) == IF k < 10 THEN Digit(k) ELSE Digits(k \div 10) \o Digit(k % 10)

RECURSIVE PyRepr(_)
\* repr(v) of Python, for the values of the model
PyRepr(v) ==
    CASE v.t = "None" -> "None"
      [] v.t = "str" -> "'" \o v.s \o "'"
      [] v.t = "int" -> IF v.n < 0 THEN "-" \o Digits(-v.n) ELSE Digits(v.n)
      [] v.t = "list" ->
            "[" \o Join(", ", [i \in 1..Len(v.elems) |-> PyRepr(v.elems[i])]) \o "]"
      [] v.t = "dict" ->
            "{" \o Join(", ", [i \in 1..Len(v.keys) |->
                                 "'" \o v.keys[i] \o "': " \o PyRepr(v.elems[i])]) \o "}"

\* str(v): a str is itself, anything else its repr
PyStr(v) == IF v.t = "str" THEN v.s ELSE PyRepr(v)

\* "k" in d, d["k"]
HasKey(d, k) == \E i \in 1..Len(d.keys) : d.keys[i] = k
GetKey(d, k) == d.elems[CHOOSE i \in 1..Len(d.keys) : d.keys[i] = k]

\* What a call gives back: a value, or an exception raised.
Returned(v) == [raised |-> FALSE, value |-> v]
Raised == [raised |-> TRUE, value |-> PyNone]

\* ------------------------------------------------------------ the helpers
\* An HTTP exchange: exc is requests.post raising (connection, timeout);
\* json_ok is whether res.json() decodes the body; data is the decoded body;
\* content is the raw body of an image response.
Response(exc, status, json_ok, data, content) ==
    [exc |-> exc, status_code |-> status, json_ok |-> json_ok, data |-> data,
     content |-> content]

\* Variant of call_hf_inference_image without the status check of line 24.
call_hf_inference_image_unchecked(res) ==
    IF res.exc THEN Raised ELSE Returned(PyStrV(res.content))

call_hf_inference_image(res) ==
    IF res.exc THEN Raised
    ELSE IF res.status_code # HTTP_OK THEN Raised
    ELSE Returned(PyStrV(res.content))

\* Variant of call_hf_text_gen without the len(data) test of line 38: data[0]
\* of an empty list raises.
call_hf_text_gen_no_len(res) ==
    IF res.exc THEN Raised
    ELSE IF res.status_code # HTTP_OK THEN Raised
    ELSE IF ~res.json_ok THEN Raised
    ELSE LET data == res.data IN
         IF data.t = "dict" /\ HasKey(data, "generated_text")
         THEN Returned(GetKey(data, "generated_text"))
         ELSE IF data.t = "list" /\ Len(data.elems) = 0 THEN Raised
         ELSE IF /\ data.t = "list"
                 /\ data.elems[1].t = "dict"
                 /\ HasKey(data.elems[1], "generated_text")
         THEN Returned(GetKey(data.elems[1], "generated_text"))
         ELSE Returned(PyStrV(PyStr(data)))

call_hf_text_gen(res) ==
    IF res.exc THEN Raised
    ELSE IF res.status_code # HTTP_OK THEN Raised
    ELSE IF ~res.json_ok THEN Raised
    ELSE LET data == res.data IN
         IF data.t = "dict" /\ HasKey(data, "generated_text")
         THEN Returned(GetKey(data, "generated_text"))
         ELSE IF /\ data.t = "list"
                 /\ Len(data.elems) # 0
                 /\ data.elems[1].t = "dict"
                 /\ HasKey(data.elems[1], "generated_text")
         THEN Returned(GetKey(data.elems[1], "generated_text"))
         ELSE Returned(PyStrV(PyStr(data)))

\* Variant of generate_script_from_template whose first line is no f-string.
generate_script_no_fstring(topic) ==
    LET lines == << "This is a short piece about {topic}.",
                    "Listen closely ~ the moment you decide to act, everything changes.",
                    "Discipline beats talent when talent won't show up. Believe it.",
                    "Now choose: will you move, or will you watch others move instead?" >>
    IN Join(" ", lines)

generate_script_from_template(topic) ==
    LET lines == << "This is a short piece about " \o topic \o ".",
                    "Listen closely ~ the moment you decide to act, everything changes.",
                    "Discipline beats talent when talent won't show up. Believe it.",
                    "Now choose: will you move, or will you watch others move instead?" >>
    IN Join(" ", lines)

\* voice_lang.split("-")[0]
RECURSIVE BeforeHyphen(_)
BeforeHyphen(lang) ==
    IF lang = "" \/ Head(lang) = "-" THEN "" ELSE Head(lang) \o BeforeHyphen(Tail(lang))

\* ------------------------------------------------------------ textwrap.fill
\* every whitespace character becomes a space
munge_whitespace(text) ==
    Join("", [i \in 1..Len(text) |->
                 IF IsSpace(CharAt(text, i)) THEN " " ELSE CharAt(text, i)])

RECURSIVE RunEnd(_, _)
\* the last position of the run of spaces, or of other characters, holding i
RunEnd(text, i) ==
    IF i = Len(text) \/ IsSpace(CharAt(text, i)) # IsSpace(CharAt(text, i + 1)) THEN i
    ELSE RunEnd(text, i + 1)

RECURSIVE ChunksFrom(_, _, _)
\* the runs that start in lo..hi, in order, by halves
ChunksFrom(text, lo, hi) ==
    IF lo > hi THEN <<>>
    ELSE IF lo = hi
    THEN IF lo = 1 \/ IsSpace(CharAt(text, lo)) # IsSpace(CharAt(text, lo - 1))
         THEN <<SubSeq(text, lo, RunEnd(text, lo))>>
         ELSE <<>>
    ELSE LET mid == (lo + hi) \div 2
         IN ChunksFrom(text, lo, mid) \o ChunksFrom(text, mid + 1, hi)

\* the maximal runs of spaces and of other characters, in order
split_chunks(text) == ChunksFrom(text, 1, Len(text))

RECURSIVE take_fitting(_, _, _, _)
\* the chunks that fit on the current line: [cur, len, rest]
take_fitting(chunks, cur, cur_len, width) ==
    IF chunks # <<>> /\ cur_len + Len(chunks[1]) <= width
    THEN take_fitting(Tail(chunks), Append(cur, chunks[1]), cur_len + Len(chunks[1]), width)
    ELSE [cur |-> cur, len |-> cur_len, rest |-> chunks]

\* a chunk longer than a line is cut to fill what is left of the current one
handle_long_word(st, width) ==
    IF st.rest # <<>> /\ Len(st.rest[1]) > width
    THEN LET space_left == IF width < 1 THEN 1 ELSE width - st.len
             chunk == st.rest[1]
         IN [cur |-> Append(st.cur, SubSeq(chunk, 1, space_left)),
             len |-> st.len,
             rest |-> <<SubSeq(chunk, space_left + 1, Len(chunk))>> \o Tail(st.rest)]
    ELSE st

RECURSIVE wrap_chunks(_, _, _)
wrap_chunks(chunks, lines, width) ==
    IF chunks = <<>> THEN lines
    ELSE LET c0 == IF lines # <<>> /\ IsBlank(chunks[1]) THEN Tail(chunks) ELSE chunks
             st == handle_long_word(take_fitting(c0, <<>>, 0, width), width)
             n == Len(st.cur)
             cur == IF n > 0 /\ IsBlank(st.cur[n]) THEN SubSeq(st.cur, 1, n - 1) ELSE st.cur
         IN wrap_chunks(st.rest, IF cur # <<>> THEN Append(lines, Join("", cur)) ELSE lines,
                        width)

\* textwrap.fill(text, width)
textwrap_fill(text, width) ==
    Join("\n", wrap_chunks(split_chunks(munge_whitespace(text)), <<>>, width))

\* ------------------------------------------------------------ moviepy
\* An audio clip: the narrated text, who wrote the file, and its time span.
AudioFileClip(audio) ==
    [text |-> audio.text, by |-> audio.by, t_start |-> 0, t_end |-> audio.dur]

ClipDuration(clip) == clip.t_end - clip.t_start

subclip(clip, t_start, t_end) == [clip EXCEPT !.t_start = t_start, !.t_end = t_end]

\* Variant of trim_audio without the cut of lines 65-66.
trim_audio_never(audio_clip, duration) == audio_clip

\* lines 64-66: the narration is cut to the video's length when it is longer
trim_audio(audio_clip, duration) ==
    IF ClipDuration(audio_clip) > duration THEN subclip(audio_clip, 0, duration)
    ELSE audio_clip

NoClip == [text |-> "", by |-> 0, t_start |-> 0, t_end |-> 0]
NoVideo ==
    [exists |-> FALSE, image |-> "", image_by |-> 0, caption |-> "", audio |-> NoClip,
     duration |-> 0, height |-> 0, fps |-> 0, by |-> 0]

\* Variant of make_video_from_image in which every session renders from an
\* image and an audio file of its own.
make_video_from_private_files(img, audio, text_overlay, duration, by) ==
    [exists |-> TRUE, image |-> img.bytes, image_by |-> by, caption |-> text_overlay,
     audio |-> [trim_audio(AudioFileClip(audio), duration) EXCEPT !.by = by],
     duration |-> duration, height |-> TARGET_H, fps |-> FPS, by |-> by]

\* The file make_video_from_image writes: the still image, the caption, the
\* attached audio, all for `duration` seconds; `by` is the session rendering.
make_video_from_image(img, audio, text_overlay, duration, by) ==
    [exists |-> TRUE, image |-> img.bytes, image_by |-> img.by, caption |-> text_overlay,
     audio |-> trim_audio(AudioFileClip(audio), duration),
     duration |-> duration, height |-> TARGET_H, fps |-> FPS, by |-> by]

\* ------------------------------------------------------------ the state
AllSessions == {1, 2}

VARIABLES
    now,        \* int(time.time())
    imgFile,    \* tmp/generated_character.png
    audioFile,  \* tmp/tts_audio.mp3
    outs,       \* tmp/final_<t>.mp4, by t
    pc,         \* per session: where its script run stands
    widgets,    \* per session: the input widgets' values
    ta,         \* per session: the stored state of the "Script" text area
    loc,        \* per session: the handler's local variables
    page,       \* per session: the elements on the page
    hist,       \* per session: what the current script run did (history)
    edit,       \* per session: the script text the user last committed
    fn          \* FnSpec: a helper, its input and its result

vars == <<now, imgFile, audioFile, outs, pc, widgets, ta, loc, page, hist, edit, fn>>
shared == <<now, imgFile, audioFile, outs>>

NoImg == [exists |-> FALSE, bytes |-> "", by |-> 0]
NoAudio == [exists |-> FALSE, text |-> "", dur |-> 0, by |-> 0]

NoTa == [has |-> FALSE, id |-> "", val |-> ""]
NoLoc == [generated |-> PyNone, script |-> "", out_path |-> 0]
EmptyPage ==
    [error |-> "", image |-> NoImg, text_area |-> FALSE, success |-> FALSE,
     video |-> NoVideo]
NoHist ==
    [button |-> FALSE, calls |-> <<>>, steps |-> <<>>, img_status |-> 0,
     text_raised |-> FALSE, failed_at |-> "", caught |-> 0]
NoEdit == [pending |-> FALSE, text |-> ""]
FnIdle ==
    [op |-> "none", topic |-> "", res |-> Response(FALSE, 0, FALSE, PyNone, ""),
     audio_len |-> 0, duration |-> 0, done |-> FALSE, ret |-> Raised, video |-> NoVideo]

DefaultWidgets ==
    [prompt |-> DEFAULT_PROMPT, hf_token |-> "", topic |-> DEFAULT_TOPIC,
     duration |-> DEFAULT_DURATION]

MainInit ==
    /\ now = 0
    /\ imgFile = NoImg
    /\ audioFile = NoAudio
    /\ outs = [t \in 0..MaxTime |-> NoVideo]
    /\ pc = [s \in AllSessions |-> "idle"]
    /\ widgets = [s \in AllSessions |-> DefaultWidgets]
    /\ ta = [s \in AllSessions |-> NoTa]
    /\ loc = [s \in AllSessions |-> NoLoc]
    /\ page = [s \in AllSessions |-> EmptyPage]
    /\ hist = [s \in AllSessions |-> NoHist]
    /\ edit = [s \in AllSessions |-> NoEdit]

Init == MainInit /\ fn = FnIdle

\* ------------------------------------------------------------ the inputs
ImageResponses ==
    { Response(TRUE, 0, FALSE, PyNone, ""),
      Response(FALSE, 503, FALSE, PyNone, "loading"),
      Response(FALSE, HTTP_OK, FALSE, PyNone, "PNG") }

GenText(v) == PyDict(<<"generated_text">>, <<v>>)

TextResponses ==
    { Response(TRUE, 0, FALSE, PyNone, ""),
      Response(FALSE, 503, TRUE, PyDict(<<"error">>, <<PyStrV("loading")>>), ""),
      Response(FALSE, HTTP_OK, FALSE, PyNone, ""),
      Response(FALSE, HTTP_OK, TRUE, PyList(<<GenText(PyStrV("Rise."))>>), ""),
      Response(FALSE, HTTP_OK, TRUE, GenText(PyStrV("")), "") }

\* What the user and the services may supply in a run of the page.
PageInputs ==
    [prompts |-> {"", DEFAULT_PROMPT},
     tokens |-> {"", "hf_x"},
     topics |-> {DEFAULT_TOPIC, "focus"},
     durations |-> {MIN_DURATION, DEFAULT_DURATION},
     img_res |-> ImageResponses,
     text_res |-> TextResponses,
     audio_lens |-> {MIN_DURATION + 2},
     edits |-> {"Move."}]

\* The same for two users at once, both with the page's default inputs.
ConcInputs ==
    [prompts |-> {DEFAULT_PROMPT},
     tokens |-> {""},
     topics |-> {DEFAULT_TOPIC},
     durations |-> {DEFAULT_DURATION},
     img_res |-> {Response(FALSE, HTTP_OK, FALSE, PyNone, "PNG")},
     text_res |-> {Response(TRUE, 0, FALSE, PyNone, "")},
     audio_lens |-> {MIN_DURATION + 2},
     edits |-> {}]

\* ------------------------------------------------------------ Streamlit
\* Streamlit runs the script from the top on every interaction.  A rerun is
\* first pending (pc = "rerun"); requests that arrive while one is pending are
\* merged into one run.  st.button is True only in the run its click asks for.

\* st.text_area(label, value): the stored state of the widget of this identity
\* (label and default value) if there is one, else the default, cast to str.
st_text_area(value, store) ==
    LET id == PyStr(value)
    IN IF store.has /\ store.id = id THEN store ELSE [has |-> TRUE, id |-> id, val |-> id]

\* At the end of a run the state of a widget the run did not render is dropped.
EndOfRun(store, rendered) == IF rendered THEN store ELSE NoTa

Idle(s) == pc[s] \in {"idle", "rerun"}

\* The user changes the sidebar token, the prompt, the topic or the slider.
SetInputs(s, In) ==
    /\ Idle(s)
    /\ \E p \in In.prompts, k \in In.tokens, tp \in In.topics, d \in In.durations :
          LET w == [prompt |-> p, hf_token |-> k, topic |-> tp, duration |-> d]
          IN /\ w # widgets[s]
             /\ widgets' = [widgets EXCEPT ![s] = w]
    /\ pc' = [pc EXCEPT ![s] = "rerun"]
    /\ edit' = [edit EXCEPT ![s] = NoEdit]
    /\ UNCHANGED <<shared, ta, loc, page, hist, fn>>

\* The user edits the text in the "Script" text area and commits it.
EditScript(s, In) ==
    /\ Idle(s)
    /\ page[s].text_area
    /\ ta[s].has
    /\ \E e \in In.edits :
          /\ e # ta[s].val
          /\ ta' = [ta EXCEPT ![s].val = e]
          /\ edit' = [edit EXCEPT ![s] = [pending |-> TRUE, text |-> e]]
    /\ pc' = [pc EXCEPT ![s] = "rerun"]
    /\ UNCHANGED <<shared, widgets, loc, page, hist, fn>>

\* A pending rerun with no click: line 83 is False, nothing below it is run
\* and the page is left with the title only.
RunScript(s) ==
    /\ pc[s] = "rerun"
    /\ pc' = [pc EXCEPT ![s] = "idle"]
    /\ page' = [page EXCEPT ![s] = EmptyPage]
    /\ hist' = [hist EXCEPT ![s] = NoHist]
    /\ ta' = [ta EXCEPT ![s] = EndOfRun(ta[s], FALSE)]
    /\ loc' = [loc EXCEPT ![s] = NoLoc]
    /\ UNCHANGED <<shared, widgets, edit, fn>>

\* ------------------------------------------------------------ the handler
StepOrder == <<"image", "script", "tts", "video">>

\* Variant of HasPrompt without the test of line 84.
HasPrompt_always(prompt) == TRUE

\* line 84
HasPrompt(prompt) == prompt # ""

\* Variant of Fail whose except block shows nothing.
Fail_silent(s, step, h, rendered) ==
    /\ pc' = [pc EXCEPT ![s] = "idle"]
    /\ page' = page
    /\ hist' = [hist EXCEPT ![s] = [h EXCEPT !.failed_at = step, !.caught = @ + 1]]
    /\ ta' = [ta EXCEPT ![s] = EndOfRun(ta[s], rendered)]
    /\ edit' = [edit EXCEPT ![s] = NoEdit]

\* lines 120-122: the one handler of the run's exceptions
\* (h is the run's history so far, rendered whether the text area was drawn)
Fail(s, step, h, rendered) ==
    /\ pc' = [pc EXCEPT ![s] = "idle"]
    /\ page' = [page EXCEPT ![s].error = "Generation failed"]
    /\ hist' = [hist EXCEPT ![s] = [h EXCEPT !.failed_at = step, !.caught = @ + 1]]
    /\ ta' = [ta EXCEPT ![s] = EndOfRun(ta[s], rendered)]
    /\ edit' = [edit EXCEPT ![s] = NoEdit]

\* lines 83-85: the click; an empty prompt shows an error and runs nothing
Click(s) ==
    /\ Idle(s)
    /\ loc' = [loc EXCEPT ![s] = NoLoc]
    /\ IF HasPrompt(widgets[s].prompt)
       THEN /\ pc' = [pc EXCEPT ![s] = "image"]
            /\ page' = [page EXCEPT ![s] = EmptyPage]
            /\ hist' = [hist EXCEPT ![s] = [NoHist EXCEPT !.button = TRUE]]
            /\ UNCHANGED <<ta, edit>>
       ELSE /\ pc' = [pc EXCEPT ![s] = "idle"]
            /\ page' = [page EXCEPT ![s] =
                           [EmptyPage EXCEPT !.error = "Please describe the character."]]
            /\ hist' = [hist EXCEPT ![s] = [NoHist EXCEPT !.button = TRUE]]
            /\ ta' = [ta EXCEPT ![s] = EndOfRun(ta[s], FALSE)]
            /\ edit' = [edit EXCEPT ![s] = NoEdit]
    /\ UNCHANGED <<shared, widgets, fn>>

\* lines 88-91: the image request and the save of its bytes
ImageStep(s, In) ==
    /\ pc[s] = "image"
    /\ \E res \in In.img_res :
         LET r == call_hf_inference_image(res)
             h == [hist[s] EXCEPT !.calls = Append(@, "image_post"),
                                  !.img_status = res.status_code]
         IN IF r.raised
            THEN /\ Fail(s, "image", h, FALSE)
                 /\ UNCHANGED <<imgFile>>
            ELSE /\ imgFile' = [exists |-> TRUE, bytes |-> r.value.s, by |-> s]
                 /\ pc' = [pc EXCEPT ![s] = "preview"]
                 /\ hist' = [hist EXCEPT ![s] = h]
                 /\ UNCHANGED <<page, ta, edit>>
    /\ UNCHANGED <<now, audioFile, outs, widgets, loc, fn>>

\* line 92: the preview shows the file at img_path
Preview(s) ==
    /\ pc[s] = "preview"
    /\ page' = [page EXCEPT ![s].image = imgFile]
    /\ hist' = [hist EXCEPT ![s].steps = Append(@, "image")]
    /\ pc' = [pc EXCEPT ![s] = "script"]
    /\ UNCHANGED <<shared, widgets, ta, loc, edit, fn>>

\* Variant of UseTextEndpoint without the test of line 96.
UseTextEndpoint_always(hf_token) == TRUE

\* line 96
UseTextEndpoint(hf_token) == hf_token # ""

\* Variant of ScriptOf whose except block leaves the script empty.
ScriptOf_no_fallback(topic, hf_token, res, h) ==
    IF hf_token # ""
    THEN LET r == call_hf_text_gen(res)
             h1 == [h EXCEPT !.calls = Append(@, "text_post")]
         IN IF r.raised
            THEN [value |-> PyStrV(""), hist |-> [h1 EXCEPT !.text_raised = TRUE]]
            ELSE [value |-> r.value, hist |-> h1]
    ELSE [value |-> PyStrV(generate_script_from_template(topic)),
          hist |-> [h EXCEPT !.calls = Append(@, "template")]]

\* lines 95-102: the value of `script` before the text area, and the history;
\* an exception of call_hf_text_gen is caught here and replaced by the template
ScriptOf(topic, hf_token, res, h) ==
    IF UseTextEndpoint(hf_token)
    THEN LET r == call_hf_text_gen(res)
             h1 == [h EXCEPT !.calls = Append(@, "text_post")]
         IN IF r.raised
            THEN [value |-> PyStrV(generate_script_from_template(topic)),
                  hist |-> [h1 EXCEPT !.calls = Append(@, "template"),
                                      !.text_raised = TRUE]]
            ELSE [value |-> r.value, hist |-> h1]
    ELSE [value |-> PyStrV(generate_script_from_template(topic)),
          hist |-> [h EXCEPT !.calls = Append(@, "template")]]

\* lines 94-104: the script step and the text area showing its result
ScriptStep(s, In) ==
    /\ pc[s] = "script"
    /\ \E res \in In.text_res :
         LET got == ScriptOf(widgets[s].topic, widgets[s].hf_token, res, hist[s])
             store == st_text_area(got.value, ta[s])
         IN /\ loc' = [loc EXCEPT ![s].generated = got.value, ![s].script = store.val]
            /\ ta' = [ta EXCEPT ![s] = store]
            /\ hist' = [hist EXCEPT ![s] = [got.hist EXCEPT !.steps = Append(@, "script")]]
    /\ page' = [page EXCEPT ![s].text_area = TRUE]
    /\ pc' = [pc EXCEPT ![s] = "tts"]
    /\ UNCHANGED <<shared, widgets, edit, fn>>

\* gTTS(text, lang) and save: an assertion fails on a text with nothing to say
gTTS_raises(text, lang) == IsBlank(text) \/ lang \notin GTTS_LANGS

\* lines 106-110: the narration; tts_ok is the speech service answering
TtsStep(s, In) ==
    /\ pc[s] = "tts"
    /\ \E voice_lang \in VOICE_LANGS, tts_ok \in BOOLEAN, L \in In.audio_lens :
         LET h == [hist[s] EXCEPT !.calls = Append(@, "gtts")]
         IN IF gTTS_raises(loc[s].script, BeforeHyphen(voice_lang)) \/ ~tts_ok
            THEN /\ Fail(s, "tts", h, TRUE)
                 /\ UNCHANGED <<audioFile>>
            ELSE /\ audioFile' = [exists |-> TRUE, text |-> loc[s].script, dur |-> L,
                                  by |-> s]
                 /\ hist' = [hist EXCEPT ![s] = [h EXCEPT !.steps = Append(@, "tts")]]
                 /\ pc' = [pc EXCEPT ![s] = "video"]
                 /\ UNCHANGED <<page, ta, edit>>
    /\ UNCHANGED <<now, imgFile, outs, widgets, loc, fn>>

\* lines 112-115: the render into tmp/final_<now>.mp4; render_ok is moviepy
\* (its caption renderer, its encoder) not raising
RenderStep(s) ==
    /\ pc[s] = "video"
    /\ \E render_ok \in BOOLEAN :
         LET h == [hist[s] EXCEPT !.calls = Append(@, "make_video")]
         IN IF ~render_ok
            THEN /\ Fail(s, "video", h, TRUE)
                 /\ UNCHANGED <<outs, loc>>
            ELSE /\ outs' = [outs EXCEPT ![now] =
                                make_video_from_image(imgFile, audioFile,
                                    textwrap_fill(loc[s].script, WRAP_WIDTH),
                                    widgets[s].duration, s)]
                 /\ loc' = [loc EXCEPT ![s].out_path = now]
                 /\ hist' = [hist EXCEPT ![s] = [h EXCEPT !.steps = Append(@, "video")]]
                 /\ page' = [page EXCEPT ![s].success = TRUE]
                 /\ pc' = [pc EXCEPT ![s] = "present"]
                 /\ UNCHANGED <<ta, edit>>
    /\ UNCHANGED <<now, imgFile, audioFile, widgets, fn>>

\* An output file of a past second that no handler is about to read back is
\* never opened again (a later run writes tmp/final_<t>.mp4 for a later t):
\* such files are left out of the state.
Reachable(files, t, readers) ==
    [u \in DOMAIN files |-> IF u >= t \/ u \in readers THEN files[u] ELSE NoVideo]

Readers(P) == {loc[s].out_path : s \in {x \in AllSessions : P[x] = "present"}}

\* lines 116-119: the file at out_path is read back and shown
Present(s) ==
    /\ pc[s] = "present"
    /\ page' = [page EXCEPT ![s].video = outs[loc[s].out_path]]
    /\ pc' = [pc EXCEPT ![s] = "idle"]
    /\ edit' = [edit EXCEPT ![s] = NoEdit]
    /\ outs' = Reachable(outs, now, Readers(pc'))
    /\ UNCHANGED <<now, imgFile, audioFile, widgets, ta, loc, hist, fn>>

\* A second passes.
Tick ==
    /\ now < MaxTime
    /\ now' = now + 1
    /\ outs' = Reachable(outs, now', Readers(pc))
    /\ UNCHANGED <<imgFile, audioFile, pc, widgets, ta, loc, page, hist, edit, fn>>

HandlerStep(s, In) ==
    \/ Click(s)
    \/ ImageStep(s, In)
    \/ Preview(s)
    \/ ScriptStep(s, In)
    \/ TtsStep(s, In)
    \/ RenderStep(s)
    \/ Present(s)

\* One user on the page.
Next ==
    \/ Tick
    \/ SetInputs(1, PageInputs)
    \/ EditScript(1, PageInputs)
    \/ RunScript(1)
    \/ HandlerStep(1, PageInputs)

Spec == Init /\ [][Next]_vars

\* Two users, each in a session of their own, on the one server.
ConcNext ==
    \/ Tick
    \/ \E s \in AllSessions : HandlerStep(s, ConcInputs)

ConcSpec == Init /\ [][ConcNext]_vars

\* ------------------------------------------------------------ the helpers alone
\* FnSpec applies one helper to one input: Init draws the helper and its input,
\* the one step leaves its result in fn.
TopicAlphabet == {"m", " ", "."}

RECURSIVE StringsUpTo(_, _)
StringsUpTo(A, n) ==
    IF n = 0 THEN {""}
    ELSE LET S == StringsUpTo(A, n - 1) IN S \cup {s \o c : s \in S, c \in A}

FnValues == {PyStrV(""), PyStrV("Rise."), PyInt(7), PyNone}

FnPayloads ==
    {GenText(v) : v \in FnValues}
    \cup {PyList(<<GenText(v)>>) : v \in FnValues}
    \cup {PyList(<<GenText(v), PyDict(<<"error">>, <<PyStrV("late")>>)>>) : v \in FnValues}
    \cup {PyDict(<<"error", "generated_text">>, <<PyInt(503), v>>) : v \in FnValues}
    \cup { PyDict(<<>>, <<>>),
           PyDict(<<"error">>, <<PyStrV("loading")>>),
           PyDict(<<"error", "estimated_time">>, <<PyStrV("loading"), PyInt(20)>>),
           PyList(<<>>),
           PyList(<<PyDict(<<"error">>, <<PyStrV("loading")>>)>>),
           PyList(<<PyStrV("Rise.")>>),
           PyList(<<PyList(<<GenText(PyStrV("Rise."))>>)>>),
           PyList(<<PyNone, GenText(PyStrV("Rise."))>>),
           PyStrV("Rise."),
           PyStrV("generated_text"),
           PyInt(7),
           PyNone }

FnResponses ==
    {Response(TRUE, 0, FALSE, PyNone, "")}
    \cup {Response(FALSE, st, FALSE, PyNone, "") : st \in {HTTP_OK, 503}}
    \cup {Response(FALSE, st, TRUE, d, "") : st \in {HTTP_OK, 503}, d \in FnPayloads}

FnInit ==
    /\ MainInit
    /\ \/ \E tp \in StringsUpTo(TopicAlphabet, MaxTopicLen) :
             fn = [FnIdle EXCEPT !.op = "template", !.topic = tp]
       \/ \E res \in FnResponses :
             fn = [FnIdle EXCEPT !.op = "text_gen", !.res = res]
       \/ \E L \in 0..MaxAudioLen, D \in MIN_DURATION..MAX_DURATION :
             fn = [FnIdle EXCEPT !.op = "video", !.audio_len = L, !.duration = D]

ApplyTemplate ==
    /\ fn.op = "template" /\ ~fn.done
    /\ fn' = [fn EXCEPT !.done = TRUE,
                        !.ret = Returned(PyStrV(generate_script_from_template(fn.topic)))]
    /\ UNCHANGED <<shared, pc, widgets, ta, loc, page, hist, edit>>

ApplyTextGen ==
    /\ fn.op = "text_gen" /\ ~fn.done
    /\ fn' = [fn EXCEPT !.done = TRUE, !.ret = call_hf_text_gen(fn.res)]
    /\ UNCHANGED <<shared, pc, widgets, ta, loc, page, hist, edit>>

ApplyMakeVideo ==
    /\ fn.op = "video" /\ ~fn.done
    /\ fn' = [fn EXCEPT !.done = TRUE,
                        !.video = make_video_from_image(
                            [exists |-> TRUE, bytes |-> "PNG", by |-> 0],
                            [exists |-> TRUE, text |-> "Rise.", dur |-> fn.audio_len,
                             by |-> 0],
                            textwrap_fill("Rise.", WRAP_WIDTH), fn.duration, 0)]
    /\ UNCHANGED <<shared, pc, widgets, ta, loc, page, hist, edit>>

FnNext == ApplyTemplate \/ ApplyTextGen \/ ApplyMakeVideo

FnSpec == FnInit /\ [][FnNext]_vars

\* ------------------------------------------------------------ the claims

\* C3: for every requested duration D in 6..20 and every narration length L,
\* the audio make_video_from_image attaches to the video is never longer than
\* D: cut to [0, D] when L > D, left at [0, L] otherwise.
C3_AudioWithinDuration ==
    (fn.op = "video" /\ fn.done) =>
        LET a == fn.video.audio
            L == fn.audio_len
            D == fn.duration
        IN /\ D \in MIN_DURATION..MAX_DURATION
           /\ fn.video.duration = D
           /\ a.t_end - a.t_start <= D
           /\ a.t_start = 0
           /\ (L > D => a.t_end = D)
           /\ (L <= D => a.t_end = L)

C3_Witness ==
    /\ fn.op = "video" /\ fn.done
    /\ fn.duration = MAX_DURATION
    /\ fn.audio_len > MAX_DURATION
    /\ fn.video.audio.t_end = MAX_DURATION

\* C7: on a 200 response with decodable JSON call_hf_text_gen never fails; an
\* object with a "generated_text" field gives that field, a non-empty list
\* whose first element is such an object gives that element's field, and any
\* other payload gives str(payload).
C7_IsObjWithText(d) == d.t = "dict" /\ \E i \in DOMAIN d.keys : d.keys[i] = "generated_text"

C7_FieldOf(d) == d.elems[CHOOSE i \in DOMAIN d.keys : d.keys[i] = "generated_text"]

C7_IsListOfObjWithText(d) ==
    d.t = "list" /\ d.elems # <<>> /\ C7_IsObjWithText(Head(d.elems))

C7_TextGenShapes ==
    (/\ fn.op = "text_gen" /\ fn.done
     /\ ~fn.res.exc /\ fn.res.status_code = HTTP_OK /\ fn.res.json_ok) =>
        LET d == fn.res.data
        IN /\ ~fn.ret.raised
           /\ C7_IsObjWithText(d) => fn.ret.value = C7_FieldOf(d)
           /\ C7_IsListOfObjWithText(d) => fn.ret.value = C7_FieldOf(Head(d.elems))
           /\ (~C7_IsObjWithText(d) /\ ~C7_IsListOfObjWithText(d)) =>
                  /\ fn.ret.value.t = "str"
                  /\ fn.ret.value.s = PyStr(d)

C7_Witness ==
    /\ fn.op = "text_gen" /\ fn.done
    /\ fn.res.status_code = HTTP_OK /\ fn.res.json_ok
    /\ fn.res.data = PyList(<<PyDict(<<"error">>, <<PyStrV("loading")>>)>>)
    /\ fn.ret = Returned(PyStrV("[{'error': 'loading'}]"))

\* C8: for any topic T the text generate_script_from_template(T) returns holds
\* T verbatim, as a contiguous substring.
C8_TemplateHoldsTopic ==
    (fn.op = "template" /\ fn.done) =>
        /\ ~fn.ret.raised
        /\ fn.ret.value.t = "str"
        /\ Contains(fn.ret.value.s, fn.topic)

C8_Witness ==
    /\ fn.op = "template" /\ fn.done
    /\ fn.topic = " m."
    /\ Contains(fn.ret.value.s, "about  m..")

\* The run of session s whose history hist[s] holds read the widget values
\* widgets[s] still holds: no interaction came after it.
Current(s) == hist[s].button /\ pc[s] # "rerun"

IsPrefix(a, b) == Len(a) <= Len(b) /\ SubSeq(b, 1, Len(a)) = a

In(x, seq) == \E i \in DOMAIN seq : seq[i] = x

\* C1: in a run whose image request is answered with a status other than 200
\* nothing follows the request: no text-endpoint call, no template, no gTTS,
\* no make_video_from_image; the run has ended with the error on the page and
\* no video.
C1_ImageFailureAborts ==
    \A s \in AllSessions :
        (hist[s].button /\ hist[s].img_status \notin {0, HTTP_OK}) =>
            /\ hist[s].calls = <<"image_post">>
            /\ hist[s].steps = <<>>
            /\ hist[s].failed_at = "image"
            /\ Idle(s)
            /\ page[s].error = "Generation failed"
            /\ page[s].video = NoVideo
            /\ ~page[s].success

C1_Witness ==
    /\ hist[1].img_status = 503
    /\ hist[1].calls = <<"image_post">>
    /\ page[1].error = "Generation failed"
    /\ imgFile.exists

\* C2: in a run without a token the text endpoint is never called, and the
\* script the script step produces is generate_script_from_template(topic).
C2_NoTokenNoTextCall ==
    \A s \in AllSessions :
        (Current(s) /\ widgets[s].hf_token = "") =>
            /\ ~In("text_post", hist[s].calls)
            /\ In("script", hist[s].steps) =>
                  /\ loc[s].generated =
                         PyStrV(generate_script_from_template(widgets[s].topic))
                  /\ In("template", hist[s].calls)

C2_Witness ==
    /\ Current(1)
    /\ widgets[1].hf_token = ""
    /\ widgets[1].topic = "focus"
    /\ hist[1].steps = StepOrder
    /\ Contains(PyStr(loc[1].generated), "about focus.")

\* C4: when a token is set and call_hf_text_gen raises (request failure,
\* status other than 200, undecodable body), the script is the template's and
\* the run goes on to the narration: the failure shows no error and is never
\* the one the top-level handler catches.
C4_TextFailureFallsBack ==
    \A s \in AllSessions :
        /\ hist[s].failed_at # "script"
        /\ (Current(s) /\ hist[s].text_raised) =>
              /\ widgets[s].hf_token # ""
              /\ loc[s].generated = PyStrV(generate_script_from_template(widgets[s].topic))
              /\ IsPrefix(<<"image", "script">>, hist[s].steps)
              /\ pc[s] = "tts" \/ In("gtts", hist[s].calls)
              /\ hist[s].failed_at = "" => (page[s].error = "" /\ hist[s].caught = 0)

C4_Witness ==
    /\ Current(1)
    /\ hist[1].text_raised
    /\ hist[1].steps = StepOrder
    /\ page[1].video.exists
    /\ page[1].video.caption =
           textwrap_fill(generate_script_from_template(widgets[1].topic), WRAP_WIDTH)

\* C5 as stated: after a failure of the image, narration or video step
\* nothing an earlier step of the run put on the page or on disk is left.
C5_NoPartialOutput ==
    \A s \in AllSessions :
        hist[s].failed_at # "" =>
            /\ page[s].image = NoImg
            /\ ~page[s].text_area
            /\ In("image", hist[s].steps) => ~imgFile.exists
            /\ In("tts", hist[s].steps) => ~audioFile.exists

\* The steps before `step`.
StepsBefore(step) ==
    SubSeq(StepOrder, 1, (CHOOSE i \in DOMAIN StepOrder : StepOrder[i] = step) - 1)

\* C5, amended: a failure of the image, narration or video step is caught
\* once, shown as an error, and ends the run with no later step run and no
\* video shown; what the earlier steps of the run produced stays: the preview
\* and the text area on the page, the image and audio files on disk.
C5_FailureEndsRun ==
    \A s \in AllSessions :
        /\ hist[s].failed_at = "" => hist[s].caught = 0
        /\ hist[s].failed_at # "" =>
              /\ hist[s].failed_at \in {"image", "tts", "video"}
              /\ hist[s].caught = 1
              /\ Idle(s)
              /\ page[s].error = "Generation failed"
              /\ page[s].video = NoVideo
              /\ ~page[s].success
              /\ hist[s].steps = StepsBefore(hist[s].failed_at)
              /\ In("image", hist[s].steps) => (page[s].image.exists /\ imgFile.exists)
              /\ In("script", hist[s].steps) => page[s].text_area
              /\ In("tts", hist[s].steps) => audioFile.exists

C5_Witness ==
    /\ hist[1].failed_at = "video"
    /\ page[1].error = "Generation failed"
    /\ page[1].image.exists
    /\ page[1].text_area
    /\ audioFile.exists /\ audioFile.text = loc[1].script

\* C6: once the user has committed an edit of the script, the narration that
\* follows reads the edited text, and so does the caption of the video.
C6_EditedScriptIsUsed ==
    \A s \in AllSessions :
        (edit[s].pending /\ Current(s) /\ In("gtts", hist[s].calls)) =>
            /\ loc[s].script = edit[s].text
            /\ pc[s] = "present" =>
                  outs[loc[s].out_path].caption = textwrap_fill(edit[s].text, WRAP_WIDTH)

Rank(call) ==
    CASE call = "image_post" -> 1
      [] call \in {"text_post", "template"} -> 2
      [] call = "gtts" -> 3
      [] call = "make_video" -> 4

\* C9: a run takes the steps image, script, narration, video in this order,
\* each after the one before has left its output; the video is shown after
\* all four only; a run with an empty prompt takes no step and shows an error.
C9_StepsInOrder ==
    \A s \in AllSessions :
        /\ IsPrefix(hist[s].steps, StepOrder)
        /\ \A i, j \in DOMAIN hist[s].calls :
              i < j => Rank(hist[s].calls[i]) <= Rank(hist[s].calls[j])
        /\ pc[s] = "image" => hist[s].calls = <<>>
        /\ pc[s] = "script" => (hist[s].steps = <<"image">> /\ imgFile.exists)
        /\ pc[s] = "tts" =>
              (hist[s].steps = <<"image", "script">> /\ page[s].text_area)
        /\ pc[s] = "video" =>
              (hist[s].steps = <<"image", "script", "tts">> /\ audioFile.exists)
        /\ pc[s] = "present" =>
              (hist[s].steps = StepOrder /\ outs[loc[s].out_path].exists)
        /\ page[s].video.exists => (hist[s].steps = StepOrder /\ Idle(s))
        /\ (Current(s) /\ widgets[s].prompt = "") =>
              /\ hist[s].calls = <<>>
              /\ hist[s].steps = <<>>
              /\ pc[s] = "idle"
              /\ page[s] = [EmptyPage EXCEPT !.error = "Please describe the character."]

C9_Witness ==
    /\ page[1].video.exists
    /\ hist[1].calls = <<"image_post", "text_post", "gtts", "make_video">>
    /\ hist[1].steps = StepOrder

\* C10: two runs at once share the two temporary files and nothing else: a
\* step changes the state of one session only, and a render takes the image
\* and the audio from the files as they are at that moment, whoever wrote
\* them, and the caption and the length from its own run.
C10_Local(s) == <<pc[s], widgets[s], ta[s], loc[s], page[s], hist[s], edit[s]>>

C10_OnlyPathsShared ==
    [][\A s \in AllSessions :
          /\ C10_Local(s)' # C10_Local(s) =>
                \A u \in AllSessions \ {s} : C10_Local(u)' = C10_Local(u)
          /\ (pc[s] = "video" /\ pc'[s] = "present") =>
                LET v == outs'[loc'[s].out_path]
                IN /\ v.by = s
                   /\ v.image = imgFile.bytes /\ v.image_by = imgFile.by
                   /\ v.audio.text = audioFile.text /\ v.audio.by = audioFile.by
                   /\ v.caption = textwrap_fill(loc[s].script, WRAP_WIDTH)
                   /\ v.duration = widgets[s].duration]_vars

\* the video of session 1's run holds the image session 2's run wrote
C10_Witness ==
    /\ page[1].video.exists
    /\ page[1].video.by = 1
    /\ page[1].video.image_by = 2
    /\ page[1].video.audio.by = 1

====
